---- MODULE Spec2Model ----
(***************************************************************************)
(* Card generation of the English learning agent                           *)
(* (src/english_learning_agent.py, src/main.py).                           *)
(*                                                                         *)
(* A text is a sequence of one-character strings, so that str.strip,       *)
(* str.split, str.startswith and str.replace are computed character by     *)
(* character as Python computes them.                                      *)
(***************************************************************************)
EXTENDS Naturals, Sequences, FiniteSets, TLC

VARIABLES pc, expression, st, result, calls, prompt, response, card, firstDone

vars == <<pc, expression, st, result, calls, prompt, response, card, firstDone>>

-----------------------------------------------------------------------------
(* Bounds of the model.                                                    *)

\* Longest response text of the usage-examples call that is enumerated
\* exhaustively over Alphabet.
MaxLen == 3

\* Characters of the exhaustively enumerated response texts.
Alphabet == {"a", " ", "\n"}

\* The invocations of generate_anki_card that may be in flight together.
Invocations == {1, 2}

-----------------------------------------------------------------------------
(* Python string operations.                                               *)

\* The characters str.strip() removes.
Whitespace == {" ", "\n", "\t", "\r"}

RECURSIVE LStrip(_)
LStrip(s) ==
    IF s # <<>> /\ Head(s) \in Whitespace THEN LStrip(Tail(s)) ELSE s

RECURSIVE RStrip(_)
RStrip(s) ==
    IF s # <<>> /\ s[Len(s)] \in Whitespace
    THEN RStrip(SubSeq(s, 1, Len(s) - 1))
    ELSE s

\* str.strip()
Strip(s) == RStrip(LStrip(s))

\* str.split('\n'): the pieces between the newlines, empty pieces kept;
\* the empty text splits into one empty piece.
RECURSIVE Split(_)
Split(s) ==
    IF s = <<>> THEN << <<>> >>
    ELSE LET rest == Split(Tail(s))
         IN  IF Head(s) = "\n"
             THEN << <<>> >> \o rest
             ELSE << <<Head(s)>> \o Head(rest) >> \o Tail(rest)

\* str.startswith(prefix)
StartsWith(s, prefix) ==
    /\ Len(s) >= Len(prefix)
    /\ SubSeq(s, 1, Len(prefix)) = prefix

\* str.replace(old, new): every non-overlapping occurrence, left to right.
RECURSIVE Replace(_, _, _)
Replace(s, old, new) ==
    IF s = <<>> THEN <<>>
    ELSE IF StartsWith(s, old)
         THEN new \o Replace(SubSeq(s, Len(old) + 1, Len(s)), old, new)
         ELSE <<Head(s)>> \o Replace(Tail(s), old, new)

\* [f(x) for x in xs]
RECURSIVE StripEach(_)
StripEach(xs) ==
    IF xs = <<>> THEN <<>> ELSE <<Strip(Head(xs))>> \o StripEach(Tail(xs))

-----------------------------------------------------------------------------
(* Literals of the program.                                                *)

IPA == <<"I", "P", "A", ":">>

NotAvailable ==
    <<"N", "o", "t", " ", "a", "v", "a", "i", "l", "a", "b", "l", "e">>

\* Optional[str] = None
None == "None"

\* {} : the dict without any key
EmptyDict == [k \in {} |-> <<>>]

PronunciationFallback == [phonetic |-> NotAvailable]

ExplanationFallback(e) ==
    <<"E", "x", "p", "l", "a", "n", "a", "t", "i", "o", "n", " ",
      "f", "o", "r", " ", "'">>
    \o e \o
    <<"'", " ", "n", "o", "t", " ", "a", "v", "a", "i", "l", "a", "b", "l",
      "e", ".">>

ExamplesFallbackWrong(e) == <<>>

ExamplesFallback(e) ==
    << <<"E", "x", "a", "m", "p", "l", "e", " ", "w", "i", "t", "h", " ",
         "'">>
       \o e \o
       <<"'", " ", "n", "o", "t", " ", "a", "v", "a", "i", "l", "a", "b",
         "l", "e", ".">> >>

-----------------------------------------------------------------------------
(* Parsing of the responses.                                               *)

\* for line in lines: if line.startswith('IPA:'): data['phonetic'] = ...
RECURSIVE ParseLines(_, _)
ParseLines(lines, data) ==
    IF lines = <<>> THEN data
    ELSE ParseLines(Tail(lines),
            IF StartsWith(Head(lines), IPA)
            THEN [phonetic |-> Strip(Replace(Head(lines), IPA, <<>>))]
            ELSE data)

ParsePronunciation(content) == ParseLines(Split(Strip(content)), EmptyDict)

ParseExamplesNoFilter(content) == StripEach(Split(Strip(content)))

ParseExamples(content) ==
    LET examples == Split(Strip(content))
    IN  StripEach(SelectSeq(examples, LAMBDA example : Strip(example) # <<>>))

-----------------------------------------------------------------------------
(* Outcomes of a remote call.                                              *)

Pending == [outcome |-> "pending"]
Failed  == [outcome |-> "failed"]
Ok(c)   == [outcome |-> "ok", content |-> c]

Outcomes(contents) == {Failed} \cup {Ok(c) : c \in contents}

Tasks == {"pronunciation", "explanation", "examples", "image"}
Calls == {"pronunciation", "explanation", "examples", "description", "image"}

\* The remote call a sub-request makes first.
FirstCall(t) == IF t = "image" THEN "description" ELSE t

\* Every text over Alphabet of length at most n.
Texts(n) == UNION {[1..k -> Alphabet] : k \in 0..n}

ThreeLinesAndABlank ==
    <<" ", "a", " ", "\n", "\n", " ", "b", " ", "b", "\n", " ", "c", " ">>

PronunciationTexts ==
    { <<>>,
      <<"h", "i">>,
      IPA,
      <<"I", "P", "A", ":", " ", " ">>,
      <<"I", "P", "A", ":", " ", "/", "h", "/">>,
      <<" ", "I", "P", "A", ":", "/", "h", "/", " ", "\n">>,
      <<"x", "\n", "I", "P", "A", ":", " ", "/", "h", "/">>,
      <<"x", "\n", " ", "I", "P", "A", ":", " ", "/", "h", "/">>,
      <<"I", "P", "A", ":", " ", "a", "\n", "I", "P", "A", ":", " ", "b">>,
      <<"I", "P", "A", ":", " ", "I", "P", "A", ":", "x">> }

ExplanationTexts == { <<>>, <<" ">>, <<"\n", "a", " ", "b", " ">>, <<"a">> }

\* Lines ending in carriage return and newline, the second indented by a
\* tab.
CarriageReturnLines == <<"a", "\r", "\n", "\t", "b", "\r", "\n">>

ExamplesTexts == Texts(MaxLen) \cup {ThreeLinesAndABlank, CarriageReturnLines}

DescriptionTexts == { <<>>, <<" ", "a", "\n">> }

Urls == {"https://img/1"}

Expressions == { <<"h", "i">>, <<" ", "g", "o", " ">> }

\* The response texts and expressions of the single-invocation
\* specification.
Wide == [pronunciation |-> PronunciationTexts,
         explanation   |-> ExplanationTexts,
         examples      |-> ExamplesTexts,
         description   |-> DescriptionTexts,
         history       |-> TRUE]

\* The response texts of the specification of concurrent invocations.
Narrow == [pronunciation |-> { <<"h", "i">>,
                               <<"I", "P", "A", ":", " ", "/", "h", "/">> },
           explanation   |-> { <<"a">> },
           examples      |-> { <<"a", "\n", " ", "b">> },
           description   |-> { <<"a">> },
           history       |-> FALSE]

-----------------------------------------------------------------------------
(* The state.                                                              *)

NoCard == [returned |-> FALSE]

NoResult == [pronunciation |-> EmptyDict, explanation |-> <<>>,
             examples |-> <<>>, image |-> None]

NoPrompt == [sent |-> FALSE]

Init ==
    /\ pc = [i \in Invocations |-> "idle"]
    /\ expression = [i \in Invocations |-> <<>>]
    /\ st = [i \in Invocations |-> [t \in Tasks |-> "none"]]
    /\ result = [i \in Invocations |-> NoResult]
    /\ calls = [i \in Invocations |-> [c \in Calls |-> 0]]
    /\ prompt = [i \in Invocations |-> [c \in Calls |-> NoPrompt]]
    /\ response = [i \in Invocations |-> [c \in Calls |-> Pending]]
    /\ card = [i \in Invocations |-> NoCard]
    /\ firstDone = [i \in Invocations |-> "none"]

\* The expression argument bound in the coroutines of invocation i.
SharedArg(i) ==
    expression[CHOOSE j \in Invocations : pc[j] # "idle"]

Arg(i) == expression[i]

\* POST /generate: the handler calls agent.generate_anki_card(expression).
Request(i, e) ==
    /\ pc[i] = "idle"
    /\ \A j \in Invocations \ {i} : pc[j] # "idle" => expression[j] # e
    /\ pc' = [pc EXCEPT ![i] = "start"]
    /\ expression' = [expression EXCEPT ![i] = e]
    /\ UNCHANGED <<st, result, calls, prompt, response, card, firstDone>>

\* The four coroutines are created and handed to asyncio.gather, which
\* schedules one task for each; the caller suspends at the await.
Gather(i) ==
    /\ pc[i] = "start"
    /\ pc' = [pc EXCEPT ![i] = "join"]
    /\ st' = [st EXCEPT ![i] = [t \in Tasks |-> "scheduled"]]
    /\ UNCHANGED <<expression, result, calls, prompt, response, card,
                   firstDone>>

CanIssueInTurn(i, t) ==
    /\ st[i][t] = "scheduled"
    /\ t = "explanation" => st[i]["pronunciation"] = "done"
    /\ t = "examples" => st[i]["explanation"] = "done"
    /\ t = "image" => st[i]["examples"] = "done"

\* A scheduled task runs as soon as the event loop picks it.
CanIssue(i, t) == st[i][t] = "scheduled"

\* The task of sub-request t runs up to the await of its first remote call.
Issue(i, t) ==
    /\ CanIssue(i, t)
    /\ st' = [st EXCEPT ![i][t] = "awaiting"]
    /\ calls' = [calls EXCEPT ![i][FirstCall(t)] = @ + 1]
    /\ prompt' = [prompt EXCEPT ![i][FirstCall(t)] =
                     [sent |-> TRUE, expression |-> Arg(i)]]
    /\ UNCHANGED <<pc, expression, result, response, card, firstDone>>

\* The task of sub-request t returns value.  firstDone is a history
\* variable, kept where T.history asks for it: the sub-request of the
\* invocation that resolved first.
Finish(i, t, value, T) ==
    /\ st' = [st EXCEPT ![i][t] = "done"]
    /\ result' = [result EXCEPT ![i][t] = value]
    /\ firstDone' = [firstDone EXCEPT ![i] =
                        IF T.history /\ @ = "none" THEN t ELSE @]

PronunciationResult(r) ==
    IF r.outcome = "ok" THEN ParsePronunciation(r.content)
    ELSE PronunciationFallback

ExplanationResult(e, r) ==
    IF r.outcome = "ok" THEN Strip(r.content) ELSE ExplanationFallback(e)

ExamplesResult(e, r) ==
    IF r.outcome = "ok" THEN ParseExamples(r.content) ELSE ExamplesFallback(e)

ImageResultUnchecked(r) == "https://img/stale"

ImageResult(r) == IF r.outcome = "ok" THEN r.content ELSE None

ResolvePronunciation(i, r, T) ==
    /\ st[i]["pronunciation"] = "awaiting"
    /\ response' = [response EXCEPT ![i]["pronunciation"] = r]
    /\ Finish(i, "pronunciation", PronunciationResult(r), T)
    /\ UNCHANGED <<pc, expression, calls, prompt, card>>

ResolveExplanation(i, r, T) ==
    /\ st[i]["explanation"] = "awaiting"
    /\ response' = [response EXCEPT ![i]["explanation"] = r]
    /\ Finish(i, "explanation", ExplanationResult(Arg(i), r), T)
    /\ UNCHANGED <<pc, expression, calls, prompt, card>>

ResolveExamples(i, r, T) ==
    /\ st[i]["examples"] = "awaiting"
    /\ response' = [response EXCEPT ![i]["examples"] = r]
    /\ Finish(i, "examples", ExamplesResult(Arg(i), r), T)
    /\ UNCHANGED <<pc, expression, calls, prompt, card>>

IssuesImageAlways(r) == TRUE

\* The image request is reached only when the description call returned.
IssuesImage(r) == r.outcome = "ok"

\* The description call resolves: on success the image request is issued
\* with the stripped description in its prompt, on failure the handler
\* returns None.
ResolveDescription(i, r, T) ==
    /\ st[i]["image"] = "awaiting"
    /\ response' = [response EXCEPT ![i]["description"] = r]
    /\ IF IssuesImage(r)
       THEN /\ st' = [st EXCEPT ![i]["image"] = "awaiting_image"]
            /\ calls' = [calls EXCEPT ![i]["image"] = @ + 1]
            /\ prompt' = [prompt EXCEPT ![i]["image"] =
                  [sent |-> TRUE, expression |-> Arg(i),
                   visual_meaning |->
                       IF r.outcome = "ok" THEN Strip(r.content) ELSE <<>>]]
            /\ UNCHANGED <<result, firstDone>>
       ELSE /\ Finish(i, "image", None, T)
            /\ UNCHANGED <<calls, prompt>>
    /\ UNCHANGED <<pc, expression, card>>

ResolveImage(i, r, T) ==
    /\ st[i]["image"] = "awaiting_image"
    /\ response' = [response EXCEPT ![i]["image"] = r]
    /\ Finish(i, "image", ImageResult(r), T)
    /\ UNCHANGED <<pc, expression, calls, prompt, card>>

AnyDone(i) == \E t \in Tasks : st[i][t] = "done"

\* asyncio.gather resolves when every task has.
AllDone(i) == \A t \in Tasks : st[i][t] = "done"

AnkiCard(e, pronunciation_info, explanation, examples, image_url) ==
    [returned       |-> TRUE,
     expression     |-> e,
     phonetic       |-> pronunciation_info["phonetic"],
     usage_examples |-> examples,
     explanation    |-> explanation,
     image_url      |-> image_url]

\* The caller resumes with the four results in argument order and builds
\* the card; a pronunciation dict without the key raises KeyError.
Return(i) ==
    /\ pc[i] = "join"
    /\ AllDone(i)
    /\ IF "phonetic" \in DOMAIN result[i]["pronunciation"]
       THEN /\ pc' = [pc EXCEPT ![i] = "returned"]
            /\ card' = [card EXCEPT ![i] =
                  AnkiCard(Arg(i), result[i]["pronunciation"],
                           result[i]["explanation"], result[i]["examples"],
                           result[i]["image"])]
       ELSE /\ pc' = [pc EXCEPT ![i] = "raised"]
            /\ UNCHANGED card
    /\ UNCHANGED <<expression, st, result, calls, prompt, response,
                   firstDone>>

Step(i, T) ==
    \/ \E e \in Expressions : Request(i, e)
    \/ Gather(i)
    \/ \E t \in Tasks : Issue(i, t)
    \/ \E r \in Outcomes(T.pronunciation) : ResolvePronunciation(i, r, T)
    \/ \E r \in Outcomes(T.explanation) : ResolveExplanation(i, r, T)
    \/ \E r \in Outcomes(T.examples) : ResolveExamples(i, r, T)
    \/ \E r \in Outcomes(T.description) : ResolveDescription(i, r, T)
    \/ \E r \in Outcomes(Urls) : ResolveImage(i, r, T)
    \/ Return(i)

\* One invocation, every response text.
Next == Step(1, Wide)

Spec == Init /\ [][Next]_vars

\* Concurrent invocations on the one shared agent.
NextConc == \E i \in Invocations : Step(i, Narrow)

SpecConc == Init /\ [][NextConc]_vars

-----------------------------------------------------------------------------
(* What the documentation promises, written out independently of the       *)
(* definitions above.                                                      *)

PlaceholderPhonetic ==
    <<"N", "o", "t", " ", "a", "v", "a", "i", "l", "a", "b", "l", "e">>

NotAvailableSuffix ==
    <<"'", " ", "n", "o", "t", " ", "a", "v", "a", "i", "l", "a", "b", "l",
      "e", ".">>

PlaceholderExplanation(e) ==
    <<"E", "x", "p", "l", "a", "n", "a", "t", "i", "o", "n", " ",
      "f", "o", "r", " ", "'">> \o e \o NotAvailableSuffix

PlaceholderExamples(e) ==
    << <<"E", "x", "a", "m", "p", "l", "e", " ", "w", "i", "t", "h", " ",
         "'">> \o e \o NotAvailableSuffix >>

Succeeded(i, c) == response[i][c].outcome = "ok"
HasFailed(i, c) == response[i][c].outcome = "failed"

\* The text of a successful response (the empty text otherwise).
Content(i, c) == IF Succeeded(i, c) THEN response[i][c].content ELSE <<>>

\* A line of the response begins with the label.
HasLabelLine(content) ==
    LET lines == Split(Strip(content))
    IN  \E k \in 1..Len(lines) : StartsWith(lines[k], IPA)

\* The trimmed non-blank lines of a text, in order: line k of the text is
\* kept when something is left of it after trimming.
RECURSIVE KeptFrom(_, _)
KeptFrom(lines, k) ==
    IF k > Len(lines) THEN <<>>
    ELSE IF \A n \in 1..Len(lines[k]) : lines[k][n] \in Whitespace
         THEN KeptFrom(lines, k + 1)
         ELSE <<Strip(lines[k])>> \o KeptFrom(lines, k + 1)

TrimmedNonBlankLines(content) == KeptFrom(Split(content), 1)

\* The sub-request of invocation i failed: one of its remote calls raised.
SubRequestFailed(i, t) ==
    IF t = "image" THEN HasFailed(i, "description") \/ HasFailed(i, "image")
    ELSE HasFailed(i, t)

\* The value each field takes from the responses of its own sub-request.
OwnPhonetic(i) ==
    IF Succeeded(i, "pronunciation")
    THEN ParsePronunciation(Content(i, "pronunciation"))["phonetic"]
    ELSE PlaceholderPhonetic

OwnExplanation(i) ==
    IF Succeeded(i, "explanation") THEN Strip(Content(i, "explanation"))
    ELSE PlaceholderExplanation(expression[i])

OwnExamples(i) ==
    IF Succeeded(i, "examples")
    THEN TrimmedNonBlankLines(Content(i, "examples"))
    ELSE PlaceholderExamples(expression[i])

OwnImage(i) ==
    IF Succeeded(i, "description") /\ Succeeded(i, "image")
    THEN response[i]["image"].content
    ELSE None

Finished(i) == pc[i] \in {"returned", "raised"}

-----------------------------------------------------------------------------
(* The claims.                                                             *)

\* C1: generate_anki_card never raises: whatever the five remote calls do,
\* no exception reaches the caller.
GenerateNeverRaises == \A i \in Invocations : pc[i] # "raised"

\* C2: when the pronunciation call succeeds with a text that has no line
\* starting with 'IPA:', the call returns a card whose phonetic is
\* "Not available".
MissingLabelGivesPlaceholder ==
    \A i \in Invocations :
        (/\ Finished(i)
         /\ Succeeded(i, "pronunciation")
         /\ ~HasLabelLine(Content(i, "pronunciation")))
        => /\ card[i].returned
           /\ card[i].phonetic = PlaceholderPhonetic

\* C3: a returned card carries the expression unmodified, a non-empty
\* phonetic, a non-empty explanation and at least one usage example, each
\* non-empty.
CardTextFieldsNonEmpty ==
    \A i \in Invocations :
        card[i].returned
        => /\ card[i].expression = expression[i]
           /\ card[i].phonetic # <<>>
           /\ card[i].explanation # <<>>
           /\ card[i].usage_examples # <<>>
           /\ \A k \in 1..Len(card[i].usage_examples) :
                  card[i].usage_examples[k] # <<>>

ImageOnlyWhenBothSucceed ==
    \A i \in Invocations :
        /\ st[i]["image"] = "done" => result[i]["image"] = OwnImage(i)
        /\ card[i].returned
           => /\ card[i].image_url # None
                 => Succeeded(i, "description") /\ Succeeded(i, "image")
              /\ Succeeded(i, "description") /\ HasFailed(i, "image")
                 => /\ card[i].image_url = None
                    /\ card[i].phonetic = OwnPhonetic(i)
                    /\ card[i].explanation = OwnExplanation(i)
                    /\ card[i].usage_examples = OwnExamples(i)

ImageOnlyWhenBothSucceedWitness ==
    /\ card[1].returned
    /\ Succeeded(1, "description") /\ HasFailed(1, "image")
    /\ card[1].image_url = None
    /\ Succeeded(1, "explanation") /\ card[1].explanation = <<"a", " ", "b">>
    /\ card[1].phonetic = <<"b">>

\* C6: the order in which the sub-requests resolve does not affect the
\* result: once the call has ended, whether it returned and the card it
\* returned are determined by the expression and the outcomes of the remote
\* calls alone, each result in its own field.
OrderOfCompletionIrrelevant ==
    \A i \in Invocations :
        Finished(i)
        => /\ card[i].returned
              <=> (Succeeded(i, "pronunciation")
                   => HasLabelLine(Content(i, "pronunciation")))
           /\ card[i].returned
              => card[i] = [returned       |-> TRUE,
                            expression     |-> expression[i],
                            phonetic       |-> OwnPhonetic(i),
                            usage_examples |-> OwnExamples(i),
                            explanation    |-> OwnExplanation(i),
                            image_url      |-> OwnImage(i)]

\* The two-call image sub-request resolved first, and the card is the same.
OrderOfCompletionWitness ==
    /\ card[1].returned
    /\ firstDone[1] = "image"
    /\ card[1].image_url \in Urls
    /\ Succeeded(1, "examples")
    /\ card[1].usage_examples = << <<"a">>, <<"a">> >>

\* C8: when the usage-examples call succeeds, the examples are the lines of
\* the response, trimmed, blank lines dropped, in the order of the
\* response; no example is empty, begins or ends with whitespace, or
\* holds a newline.
ExamplesAreTrimmedNonBlankLines ==
    \A i \in Invocations :
        st[i]["examples"] = "done" /\ Succeeded(i, "examples")
        => LET xs == result[i]["examples"]
           IN  /\ xs = TrimmedNonBlankLines(response[i]["examples"].content)
               /\ \A k \in 1..Len(xs) :
                      /\ xs[k] # <<>>
                      /\ xs[k][1] \notin Whitespace
                      /\ xs[k][Len(xs[k])] \notin Whitespace
                      /\ \A n \in 1..Len(xs[k]) : xs[k][n] # "\n"
               /\ card[i].returned => card[i].usage_examples = xs

ExamplesCarriageReturnReached ==
    /\ response[1]["examples"] = Ok(CarriageReturnLines)
    /\ result[1]["examples"] = << <<"a">>, <<"b">> >>

ExamplesWitness ==
    /\ card[1].returned
    /\ response[1]["examples"] = Ok(ThreeLinesAndABlank)
    /\ card[1].usage_examples = << <<"a">>, <<"b", " ", "b">>, <<"c">> >>

\* C9: fan-out and join: a scheduled sub-request can always issue its first
\* remote call, whatever the state of the others; while a sub-request is
\* outstanding the caller is suspended at the join; the call ends, and a
\* card exists, only after all four sub-requests have resolved.
FanOutThenJoin ==
    \A i \in Invocations :
        /\ \A t \in Tasks : st[i][t] = "scheduled" => ENABLED Issue(i, t)
        /\ (\E t \in Tasks : st[i][t] \notin {"none", "done"})
           => pc[i] = "join"
        /\ Finished(i) \/ card[i].returned
           => \A t \in Tasks : st[i][t] = "done"

\* All four first calls are in flight together, none resolved.
FanOutWitness ==
    /\ pc[1] = "join"
    /\ \A t \in Tasks : st[1][t] = "awaiting"
    /\ \A c \in Calls : response[1][c] = Pending
    /\ \A t \in Tasks : calls[1][FirstCall(t)] = 1

\* C10: no retry: each of the five remote calls is issued at most once; a
\* failed call leaves its sub-request resolved with its fallback; the image
\* call is issued only when the description call succeeded.
NoRetry ==
    \A i \in Invocations :
        /\ \A c \in Calls : calls[i][c] <= 1
        /\ \A c \in Calls : response[i][c] # Pending => calls[i][c] = 1
        /\ calls[i]["image"] = 1 <=> Succeeded(i, "description")
        /\ HasFailed(i, "pronunciation")
           => /\ st[i]["pronunciation"] = "done"
              /\ result[i]["pronunciation"] = [phonetic |-> PlaceholderPhonetic]
        /\ HasFailed(i, "explanation")
           => /\ st[i]["explanation"] = "done"
              /\ result[i]["explanation"] = PlaceholderExplanation(expression[i])
        /\ HasFailed(i, "examples")
           => /\ st[i]["examples"] = "done"
              /\ result[i]["examples"] = PlaceholderExamples(expression[i])
        /\ HasFailed(i, "description") \/ HasFailed(i, "image")
           => /\ st[i]["image"] = "done"
              /\ result[i]["image"] = None

NoRetryWitness ==
    /\ pc[1] = "returned"
    /\ HasFailed(1, "description")
    /\ calls[1]["description"] = 1
    /\ calls[1]["image"] = 0
    /\ response[1]["image"] = Pending
    /\ HasFailed(1, "explanation") /\ calls[1]["explanation"] = 1

\* C7: concurrent invocations with different expressions do not
\* cross-contaminate: every prompt, every sub-request result and every field
\* of a returned card of an invocation comes from that invocation's own
\* expression and its own responses.
NoCrossContamination ==
    \A i \in Invocations :
        /\ \A c \in Calls :
               prompt[i][c].sent => prompt[i][c].expression = expression[i]
        /\ prompt[i]["image"].sent
           => prompt[i]["image"].visual_meaning
                  = Strip(Content(i, "description"))
        /\ st[i]["explanation"] = "done"
           => result[i]["explanation"] = OwnExplanation(i)
        /\ st[i]["examples"] = "done"
           => result[i]["examples"] = OwnExamples(i)
        /\ st[i]["image"] = "done" => result[i]["image"] = OwnImage(i)
        /\ card[i].returned
           => /\ card[i].expression = expression[i]
              /\ card[i].phonetic = OwnPhonetic(i)
              /\ card[i].explanation = OwnExplanation(i)
              /\ card[i].usage_examples = OwnExamples(i)
              /\ card[i].image_url = OwnImage(i)

\* Two overlapping invocations with different expressions, each with its
\* own placeholder and its own responses.
NoCrossContaminationWitness ==
    /\ expression[1] # expression[2]
    /\ pc[1] = "join" /\ st[1]["image"] = "awaiting_image"
    /\ HasFailed(1, "explanation")
    /\ result[1]["explanation"] = PlaceholderExplanation(expression[1])
    /\ card[2].returned
    /\ HasFailed(2, "explanation") /\ Succeeded(2, "pronunciation")
    /\ card[2].explanation = PlaceholderExplanation(expression[2])
    /\ card[2].phonetic = <<"/", "h", "/">>

====
